---- MODULE Spec2Model ----
(***************************************************************************)
(* Media-sanitization certificate backend (src/main.py).                   *)
(*                                                                         *)
(* The state is what the four protected endpoints act on: the              *)
(* "certificates" table and the "certificates" storage bucket of the       *)
(* backend-as-a-service, the certificate ids handed out so far, and the    *)
(* last request (with the answers the external services gave to it) and    *)
(* the response the handler produced.  One action per endpoint; an action  *)
(* is the whole handler, from the Authorization check to the response.     *)
(*                                                                         *)
(* Text is a sequence of chunks.  The texts a request supplies are split   *)
(* into their characters, so that str.replace and string formatting are    *)
(* computed, not assumed; a literal of the source that is only ever copied *)
(* (and holds neither a space nor a slash) is kept as one chunk.           *)
(***************************************************************************)
EXTENDS Integers, Sequences, FiniteSets, TLC

VARIABLES table, storage, nextId, req, resp

vars == <<table, storage, nextId, req, resp>>

(* Number of certificate ids uuid4() hands out in one behaviour. *)
MaxCerts == 2

-----------------------------------------------------------------------------
(* JSON values as Python sees them after request.json() / response.json(). *)

JNull == [t |-> "null"]
JStr(s) == [t |-> "str", s |-> s]
JNum(n) == [t |-> "num", n |-> n]
JBool(b) == [t |-> "bool", b |-> b]
JObj(f) == [t |-> "obj", f |-> f]
JArr(a) == [t |-> "arr", a |-> a]

EmptyDict == [k \in {} |-> JNull]

(* Python truth value: None, "", 0, False, {} and [] are falsy.             *)
Truthy(v) ==
  CASE v.t = "null" -> FALSE
    [] v.t = "str"  -> v.s # <<>>
    [] v.t = "num"  -> v.n # 0
    [] v.t = "bool" -> v.b
    [] v.t = "obj"  -> DOMAIN v.f # {}
    [] v.t = "arr"  -> v.a # <<>>

(* type(v).__name__, as it appears in an AttributeError message. *)
PyTypeName(v) ==
  CASE v.t = "null" -> "NoneType"
    [] v.t = "str"  -> "str"
    [] v.t = "num"  -> "int"
    [] v.t = "bool" -> "bool"
    [] v.t = "obj"  -> "dict"
    [] v.t = "arr"  -> "list"

DigitChars == <<"0", "1", "2", "3", "4", "5", "6", "7", "8", "9">>

RECURSIVE NatStr(_)
NatStr(n) == IF n < 10 THEN <<DigitChars[n + 1]>>
             ELSE NatStr(n \div 10) \o <<DigitChars[(n % 10) + 1]>>

(* str(v) for the scalar values a certificate field can carry. *)
PyStr(v) ==
  CASE v.t = "null" -> <<"None">>
    [] v.t = "str"  -> v.s
    [] v.t = "num"  -> NatStr(v.n)
    [] v.t = "bool" -> IF v.b THEN <<"True">> ELSE <<"False">>
    [] v.t = "obj"  -> <<"{", "}">>
    [] v.t = "arr"  -> <<"[", "]">>

(* An evaluation either yields a value or raises an exception with a message. *)
Ok(v) == [exc |-> <<>>, v |-> v]
Raise(msg) == [exc |-> msg, v |-> JNull]

AttributeError(v, attr) ==
  <<"'", PyTypeName(v), "' object has no attribute '", attr, "'">>

(* dict.get(key, default) *)
dict_get(d, key, default) == IF key \in DOMAIN d THEN d[key] ELSE default

(* data.get(section, {}).get(key): raises when the section is present but   *)
(* is not an object (null, a string, a number, a list).                     *)
section_get(data, section, key) ==
  LET sec == dict_get(data, section, JObj(EmptyDict))
  IN  IF sec.t = "obj" THEN Ok(dict_get(sec.f, key, JNull))
      ELSE Raise(AttributeError(sec, "get"))

-----------------------------------------------------------------------------
(* Text literals. *)

Unknown == <<"Unknown">>
UnknownDevice == <<"Unknown_Device">>
NA == <<"N/A">>
SSD500 == <<"S", "S", "D", "-", "5", "0", "0">>
MyDisk == <<"M", "y", " ", "D", "/", "2">>
Acme == <<"Acme">>
UnknownEmail == <<"unknown@example.com">>

SUPABASE_URL == <<"https://project.supabase.co">>
BUCKET == <<"certificates">>

-----------------------------------------------------------------------------
(* SupabaseClient: the calls are made by the environment (see the answer    *)
(* sets below); these are the parts the client computes itself.             *)

(* An answer of an external HTTP service to one call: the call raised (no   *)
(* connection, unparsable body), or it returned a status, a text and, for   *)
(* the identity provider, a JSON body.                                      *)
NotCalled == [called |-> FALSE, raises |-> FALSE, status |-> 0, text |-> <<>>, json |-> JNull]
Answer(status, text, json) ==
  [called |-> TRUE, raises |-> FALSE, status |-> status, text |-> text, json |-> json]
Raises(text) ==
  [called |-> TRUE, raises |-> TRUE, status |-> 0, text |-> text, json |-> JNull]

(* verify_user: the identity provider's JSON body on 200, None otherwise.   *)
verify_user_any_status(response) ==
  IF response.raises THEN Raise(response.text) ELSE Ok(response.json)

verify_user(response) ==
  IF response.raises THEN Raise(response.text)
  ELSE IF response.status = 200 THEN Ok(response.json)
  ELSE Ok(JNull)

get_public_url(bucket, filename) ==
  SUPABASE_URL \o <<"/storage/v1/object/public/">> \o bucket \o <<"/">> \o filename

(* select_records builds the query: one eq. filter per entry of filters,    *)
(* limit and offset only when truthy (0 and None both leave them out).      *)
(* The database answers a query with the matching rows in insertion order,  *)
(* offset rows skipped, at most limit rows kept.                            *)
Matches_model_only(row, filters) ==
  \A key \in DOMAIN filters \ {"user_id"} : row[key] = filters[key]

Matches(row, filters) ==
  \A key \in DOMAIN filters : row[key] = filters[key]

select_records(rows, filters, limit, offset) ==
  LET matching == SelectSeq(rows, LAMBDA row : Matches(row, filters))
      skipped == IF offset # 0 THEN SubSeq(matching, offset + 1, Len(matching))
                 ELSE matching
  IN  IF limit # 0 /\ limit < Len(skipped) THEN SubSeq(skipped, 1, limit)
      ELSE skipped

-----------------------------------------------------------------------------
(* generate_certificate_pdf: the cells of the PDF that show a certificate   *)
(* field, and the places where building it raises.                          *)

get_value_default_only(obj, key, default) == default

get_value(obj, key, default) ==
  IF obj.t = "obj"
  THEN LET val == dict_get(obj.f, key, JStr(default))
       IN  IF Truthy(val) THEN PyStr(val) ELSE default
  ELSE default

(* len(v) of a truthy value, as text: a list, a string and an object have a *)
(* length, a number and a boolean raise TypeError.                          *)
py_len(v) ==
  CASE v.t = "arr" -> Ok(NatStr(Len(v.a)))
    [] v.t = "str" -> Ok(NatStr(Len(v.s)))
    [] v.t = "obj" -> Ok(NatStr(Cardinality(DOMAIN v.f)))
    [] OTHER -> Raise(<<"object of type '", PyTypeName(v), "' has no len()">>)

(* ', '.join(items) of a sequence of texts. *)
RECURSIVE join(_)
join(texts) ==
  IF texts = <<>> THEN <<>>
  ELSE IF Len(texts) = 1 THEN texts[1]
  ELSE texts[1] \o <<", ">> \o join(Tail(texts))

(* The keys of an object, each as a text, in one order (the model keeps no  *)
(* insertion order).                                                        *)
RECURSIVE keys(_)
keys(names) ==
  IF names = {} THEN <<>>
  ELSE LET name == CHOOSE k \in names : TRUE
       IN  <<<<name>>>> \o keys(names \ {name})

(* ', '.join(v) of a truthy value: a list of strings is joined, a list with *)
(* another item, a number and a boolean raise TypeError, a string is joined *)
(* character by character.                                                  *)
py_join(v) ==
  CASE v.t = "arr" ->
         LET others == {i \in 1..Len(v.a) : v.a[i].t # "str"}
             first == CHOOSE i \in others : \A j \in others : i <= j
         IN  IF others = {} THEN Ok(join([i \in 1..Len(v.a) |-> v.a[i].s]))
             ELSE Raise(<<"sequence item ">> \o NatStr(first - 1)
                          \o <<": expected str instance, ", PyTypeName(v.a[first]),
                               " found">>)
    [] v.t = "str" -> Ok(join([i \in 1..Len(v.s) |-> <<v.s[i]>>]))
    [] v.t = "obj" -> Ok(join(keys(DOMAIN v.f)))
    [] OTHER -> Raise(<<"can only join an iterable">>)

generate_certificate_pdf(data, certificate_id) ==
  LET cert_metadata == dict_get(data, "certificate_metadata", JObj(EmptyDict))
      tool_info == dict_get(data, "tool_information", JObj(EmptyDict))
      sanitization_event == dict_get(data, "sanitization_event", JObj(EmptyDict))
      media_info == dict_get(data, "media_information", JObj(EmptyDict))
      sanitization_details == dict_get(data, "sanitization_details", JObj(EmptyDict))
      host_info == dict_get(data, "host_system_information", JObj(EmptyDict))
      passes == dict_get(sanitization_details.f, "passes_performed", JArr(<<>>))
      passes_count == IF Truthy(passes) THEN py_len(passes) ELSE Ok(NA)
      tools_used == dict_get(host_info.f, "tools_used", JArr(<<>>))
      tools_str == IF Truthy(tools_used) THEN py_join(tools_used) ELSE Ok(NA)
  IN  IF sanitization_event.t # "obj"
      THEN Raise(AttributeError(sanitization_event, "get"))
      ELSE IF sanitization_details.t # "obj"
      THEN Raise(AttributeError(sanitization_details, "get"))
      ELSE IF passes_count.exc # <<>> THEN passes_count
      ELSE IF host_info.t # "obj"
      THEN Raise(AttributeError(host_info, "get"))
      ELSE IF tools_str.exc # <<>> THEN tools_str
      ELSE Ok([certificate_id |-> get_value(cert_metadata, "certificate_id", certificate_id),
               tool_name |-> get_value(tool_info, "name", NA),
               method |-> get_value(tool_info, "method", NA),
               technique |-> get_value(tool_info, "technique", NA),
               verification_method |-> get_value(tool_info, "verification_method", NA),
               manufacturer |-> get_value(media_info, "manufacturer", NA),
               model |-> get_value(media_info, "model", NA),
               serial_number |-> get_value(media_info, "serial_number", NA),
               media_type |-> get_value(media_info, "media_type", NA),
               passes_performed |-> passes_count.v,
               tools_used |-> tools_str.v])

-----------------------------------------------------------------------------
(* generate_certificate: field resolution.                                  *)

(* data.get(top) or data.get(section, {}).get(key) *)
top_or_nested_reversed(data, top, section, key) ==
  LET nested == section_get(data, section, key)
  IN  IF nested.exc # <<>> THEN nested
      ELSE IF Truthy(nested.v) THEN nested
      ELSE Ok(dict_get(data, top, JNull))

top_only(data, top, section, key) == Ok(dict_get(data, top, JNull))

top_or_nested(data, top, section, key) ==
  LET value == dict_get(data, top, JNull)
  IN  IF Truthy(value) THEN Ok(value) ELSE section_get(data, section, key)

(* data.get(top) or data.get(section, {}).get(key) or default *)
top_or_nested_no_default(data, top, section, key, default) ==
  LET value == dict_get(data, top, JNull)
  IN  IF Truthy(value) THEN Ok(value) ELSE section_get(data, section, key)

top_or_nested_or_default(data, top, section, key, default) ==
  LET value == top_or_nested(data, top, section, key)
  IN  IF value.exc # <<>> THEN value
      ELSE IF Truthy(value.v) THEN value
      ELSE Ok(JStr(default))

device_model(data) ==
  top_or_nested_or_default(data, "model", "media_information", "model", UnknownDevice)
manufacturer(data) ==
  top_or_nested_or_default(data, "manufacturer", "media_information", "manufacturer", Unknown)
serial_number(data) ==
  top_or_nested_or_default(data, "serial_number", "media_information", "serial_number", Unknown)
media_type(data) == top_or_nested(data, "media_type", "media_information", "media_type")
sanitization_method(data) ==
  top_or_nested(data, "sanitization_method", "tool_information", "method")
sanitization_technique(data) ==
  top_or_nested(data, "sanitization_technique", "tool_information", "technique")
tool_used(data) == top_or_nested(data, "tool_used", "tool_information", "name")
verification_method(data) ==
  top_or_nested(data, "verification_method", "tool_information", "verification_method")

(* str.replace(old, new) for a one-character old. *)
str_replace(s, old, new) == [i \in 1..Len(s) |-> IF s[i] = old THEN new ELSE s[i]]

safe_model_spaces_only(model) == str_replace(model, " ", "_")

safe_model(model) == str_replace(str_replace(model, " ", "_"), "/", "_")

filename(user_id, safe, certificate_id) ==
  <<"cert_">> \o user_id \o <<"_">> \o safe
    \o <<"_">> \o certificate_id \o <<".pdf">>

(* str(uuid.uuid4()): an identifier no earlier call returned; the n-th call *)
(* is given the n-th identifier.                                            *)
uuid4_constant(n) == <<"uuid-">> \o NatStr(1)

uuid4(n) == <<"uuid-">> \o NatStr(n)

-----------------------------------------------------------------------------
(* Requests and responses.                                                  *)

NoHeader == [present |-> FALSE, value |-> <<>>]
Header(value) == [present |-> TRUE, value |-> value]

NoBody == [read |-> FALSE, valid |-> FALSE, data |-> JNull]
Body(data) == [read |-> TRUE, valid |-> TRUE, data |-> data]
InvalidJson == [read |-> TRUE, valid |-> FALSE, data |-> JNull]

NoRequest ==
  [endpoint |-> "", authorization |-> NoHeader, idp |-> NotCalled, body |-> NoBody,
   upload |-> NotCalled, insert |-> NotCalled, select |-> NotCalled,
   limit |-> 0, offset |-> 0, model |-> <<>>]

NoResponse ==
  [status |-> 0, detail |-> <<>>, certificate_id |-> <<>>, pdf_url |-> <<>>,
   user_id |-> <<>>, device_model |-> <<>>, email |-> JNull, manufacturer |-> JNull,
   certificates |-> <<>>]

HTTPException(status, detail) == [NoResponse EXCEPT !.status = status, !.detail = detail]

(* not authorization or not authorization.startswith("Bearer ") *)
HasBearer(authorization) ==
  /\ authorization.present
  /\ authorization.value # <<>>
  /\ authorization.value[1] = "Bearer "

(* authorization.replace("Bearer ", "") *)
token(authorization) == SelectSeq(authorization.value, LAMBDA chunk : chunk # "Bearer ")

(* The first lines of every protected handler: the header check, the call   *)
(* of the identity provider, user_info["id"].  kind is "ok", "http" (an     *)
(* HTTPException was raised) or "exc" (another exception was raised).       *)
authenticate(authorization, idp, missing, invalid) ==
  LET none == [kind |-> "http", status |-> 401, detail |-> missing,
               user_id |-> <<>>, user_info |-> EmptyDict]
  IN  IF ~HasBearer(authorization) THEN none
      ELSE LET user_info == verify_user(idp)
           IN  IF user_info.exc # <<>>
               THEN [none EXCEPT !.kind = "exc", !.status = 0, !.detail = user_info.exc]
               ELSE IF ~Truthy(user_info.v)
               THEN [none EXCEPT !.detail = invalid]
               ELSE IF "id" \notin DOMAIN user_info.v.f
               THEN [none EXCEPT !.kind = "exc", !.status = 0, !.detail = <<"'id'">>]
               ELSE [none EXCEPT !.kind = "ok", !.status = 0, !.detail = <<>>,
                                 !.user_id = user_info.v.f.id.s,
                                 !.user_info = user_info.v.f]

(* upload_response.status_code not in [200, 201] *)
status_failed_unless_2xx(answer) == answer.status < 200 \/ answer.status > 299

status_failed(answer) == answer.status \notin {200, 201}

never_failed(answer) == FALSE

upload_failed(answer) == status_failed(answer)

insert_never_failed(answer) == FALSE

insert_failed(answer) == status_failed(answer)

(* response.status_code != 200 *)
select_failed(answer) == answer.status # 200

(* if not data: raise HTTPException(status_code=404, ...) *)
never_empty(data) == FALSE

no_certificates(data) == data = <<>>

-----------------------------------------------------------------------------
(* POST /generate-certificate                                               *)

NotPrepared ==
  [exc |-> <<>>, ids |-> 0, certificate_id |-> <<>>, pdf |-> JNull,
   device_model |-> <<>>, filename |-> <<>>]

(* From request.json() to the file name: the body is parsed, the            *)
(* certificate id is drawn, the PDF is built, the device model is resolved  *)
(* and sanitized.  ids is the number of uuid4() calls made.                 *)
prepare(body, user_id, n) ==
  IF ~body.valid THEN [NotPrepared EXCEPT !.exc = <<"Expecting value">>]
  ELSE IF body.data.t # "obj"
  THEN [NotPrepared EXCEPT !.exc = AttributeError(body.data, "keys")]
  ELSE LET data == body.data.f
           certificate_id == uuid4(n)
           pdf == generate_certificate_pdf(data, certificate_id)
           model == device_model(data)
           drawn == [NotPrepared EXCEPT !.ids = 1, !.certificate_id = certificate_id]
       IN  IF pdf.exc # <<>> THEN [drawn EXCEPT !.exc = pdf.exc]
           ELSE IF model.exc # <<>> THEN [drawn EXCEPT !.exc = model.exc]
           ELSE IF model.v.t # "str"
           THEN [drawn EXCEPT !.exc = AttributeError(model.v, "replace")]
           ELSE [drawn EXCEPT !.pdf = pdf.v,
                              !.device_model = model.v.s,
                              !.filename = filename(user_id, safe_model(model.v.s),
                                                    certificate_id)]

(* The database record, or the first exception its fields raise. *)
certificate_data(data, certificate_id, user_id, user_email, model, pdf_url) ==
  LET fields == <<manufacturer(data), serial_number(data), media_type(data),
                  sanitization_method(data), sanitization_technique(data),
                  tool_used(data), verification_method(data)>>
      raising == {i \in 1..Len(fields) : fields[i].exc # <<>>}
  IN  IF raising # {}
      THEN Raise(fields[CHOOSE i \in raising : \A j \in raising : i <= j].exc)
      ELSE Ok([certificate_id |-> certificate_id,
               user_id |-> user_id,
               user_email |-> user_email,
               manufacturer |-> fields[1].v,
               model |-> JStr(model),
               serial_number |-> fields[2].v,
               media_type |-> fields[3].v,
               sanitization_method |-> fields[4].v,
               sanitization_technique |-> fields[5].v,
               tool_used |-> fields[6].v,
               verification_method |-> fields[7].v,
               pdf_url |-> pdf_url])

(* The handler's control flow: which step it reaches, given the results of *)
(* the steps before.                                                        *)
reads_body(auth) == auth.kind = "ok"

calls_upload(auth, p) == reads_body(auth) /\ p.exc = <<>>

builds_record(auth, p, upload) ==
  calls_upload(auth, p) /\ ~upload.raises /\ ~upload_failed(upload)

calls_insert_always(auth, p, upload, record) == TRUE

calls_insert(auth, p, upload, record) ==
  builds_record(auth, p, upload) /\ record.exc = <<>>

(* The response.  except HTTPException: raise; except Exception as e:       *)
(* raise HTTPException(status_code=500, detail=str(e)).                     *)
generate_certificate(auth, p, upload, pdf_url, record, insert) ==
  IF auth.kind = "http" THEN HTTPException(auth.status, auth.detail)
  ELSE IF auth.kind = "exc" THEN HTTPException(500, auth.detail)
  ELSE IF p.exc # <<>> THEN HTTPException(500, p.exc)
  ELSE IF upload.raises THEN HTTPException(500, upload.text)
  ELSE IF upload_failed(upload)
  THEN HTTPException(500, <<"Upload failed: ">> \o upload.text)
  ELSE IF record.exc # <<>> THEN HTTPException(500, record.exc)
  ELSE IF insert.raises THEN HTTPException(500, insert.text)
  ELSE IF insert_failed(insert)
  THEN HTTPException(500, <<"Database save failed: ">> \o insert.text)
  ELSE [NoResponse EXCEPT !.status = 200,
                          !.certificate_id = p.certificate_id,
                          !.pdf_url = pdf_url,
                          !.user_id = auth.user_id,
                          !.device_model = p.device_model]

-----------------------------------------------------------------------------
(* GET /my-certificates, GET /certificates-by-device/{model}, GET /user-info *)

calls_select(auth) == auth.kind = "ok"

(* rows is what the database holds for the query select_records built. *)
get_my_certificates(auth, select, rows) ==
  IF auth.kind = "http" THEN HTTPException(auth.status, auth.detail)
  ELSE IF auth.kind = "exc" THEN HTTPException(500, auth.detail)
  ELSE IF select.raises THEN HTTPException(500, select.text)
  ELSE IF select_failed(select) THEN HTTPException(500, <<"Database error">>)
  ELSE [NoResponse EXCEPT !.status = 200, !.user_id = auth.user_id,
                          !.certificates = rows]

get_certificates_by_device(model, auth, select, rows) ==
  IF auth.kind = "http" THEN HTTPException(auth.status, auth.detail)
  ELSE IF auth.kind = "exc" THEN HTTPException(500, auth.detail)
  ELSE IF select.raises THEN HTTPException(500, select.text)
  ELSE IF select_failed(select) THEN HTTPException(500, <<"Database error">>)
  ELSE IF no_certificates(rows)
  THEN HTTPException(404, <<"No certificates found">>)
  ELSE IF rows = <<>>       \* data[0] of an empty list: IndexError
  THEN HTTPException(500, <<"list index out of range">>)
  ELSE [NoResponse EXCEPT !.status = 200, !.device_model = model,
                          !.manufacturer = rows[1].manufacturer,
                          !.certificates = rows]

(* except Exception as e: raise HTTPException(status_code=401, ...) *)
get_user_info(auth) ==
  IF auth.kind = "http" THEN HTTPException(auth.status, auth.detail)
  ELSE IF auth.kind = "exc" THEN HTTPException(401, auth.detail)
  ELSE [NoResponse EXCEPT !.status = 200, !.user_id = auth.user_id,
                          !.email = dict_get(auth.user_info, "email", JNull)]

-----------------------------------------------------------------------------
(* The environment: the clients' requests and the services' answers.        *)

UserA == <<"userA">>
UserB == <<"userB">>
EmailA == <<"a@example.com">>

BearerA == Header(<<"Bearer ", "tokA">>)
BearerB == Header(<<"Bearer ", "tokB">>)

Headers == {NoHeader, Header(<<"Basic ", "tokA">>), BearerA, BearerB,
            Header(<<"Bearer ", "expired">>)}

(* The identity provider knows two users; user B has no email.  Its answer  *)
(* to a token: the user, a failed call, a body without id, a rejection, an  *)
(* empty body.                                                              *)
IdentityAnswers(tok) ==
  IF tok = <<"tokA">>
  THEN {Answer(200, <<>>, JObj([id |-> JStr(UserA), email |-> JStr(EmailA)])),
        Raises(<<"Connection refused">>),
        Answer(200, <<>>, JObj([email |-> JStr(EmailA)]))}
  ELSE IF tok = <<"tokB">>
  THEN {Answer(200, <<>>, JObj([id |-> JStr(UserB)]))}
  ELSE {Answer(401, <<>>, JObj([msg |-> JStr(<<"invalid JWT">>)])),
        Answer(200, <<>>, JObj(EmptyDict))}

UploadAnswers == {Answer(200, <<"Key">>, JNull),
                  Answer(204, <<>>, JNull),
                  Answer(403, <<"Forbidden">>, JNull)}

InsertAnswers == {Answer(201, <<>>, JNull),
                  Answer(204, <<>>, JNull),
                  Answer(409, <<"duplicate key">>, JNull),
                  Raises(<<"Connection refused">>)}

SelectAnswers == {Answer(200, <<>>, JNull),
                  Answer(206, <<>>, JNull),
                  Answer(500, <<"canceling statement">>, JNull)}

(* The service did what it was asked: it answered with a 2xx status. *)
Performed(answer) ==
  answer.called /\ ~answer.raises /\ answer.status >= 200 /\ answer.status <= 299

(* Request bodies of the system specification. *)
EmptyBody == Body(JObj(EmptyDict))
FullBody ==
  Body(JObj([model |-> JStr(MyDisk),
             manufacturer |-> JStr(Acme),
             media_information |-> JObj([model |-> JStr(SSD500)]),
             certificate_metadata |-> JObj([certificate_id |-> JStr(<<"X", "1">>)]),
             sanitization_details |->
               JObj([passes_performed |-> JArr(<<JObj(EmptyDict), JObj(EmptyDict)>>)]),
             host_system_information |->
               JObj([tools_used |-> JArr(<<JStr(<<"d", "d">>), JStr(<<"s", "h">>)>>)])]))
NullSectionBody ==
  Body(JObj([model |-> JStr(MyDisk), media_information |-> JNull]))
NumberModelBody == Body(JObj([model |-> JNum(5)]))
EmptyIdBody ==
  Body(JObj([certificate_metadata |-> JObj([certificate_id |-> JStr(<<>>)])]))
NullEventBody == Body(JObj([sanitization_event |-> JNull]))
ArrayBody == Body(JArr(<<>>))

Bodies == {EmptyBody, FullBody, NullSectionBody, NumberModelBody, EmptyIdBody,
           NullEventBody, ArrayBody, InvalidJson}

(* limit and offset of GET /my-certificates; <<10, 0>> are the defaults.     *)
(* A request that is turned away before the query carries the defaults.     *)
Pagings == {<<10, 0>>, <<1, 1>>, <<0, 0>>}

DeviceModels == {MyDisk, UnknownDevice}

-----------------------------------------------------------------------------
(* Actions: one request, handled to its response.  A service is asked     *)
(* only when the handler reaches the call; its answer is then any of the    *)
(* answers above.                                                           *)

IdentityFor(authorization) ==
  IF HasBearer(authorization) THEN IdentityAnswers(token(authorization)) ELSE {NotCalled}

GenerateCertificateFrom(HeaderSet, BodySet) ==
  \E authorization \in HeaderSet :
  \E idp \in IdentityFor(authorization) :
  \E auth \in {authenticate(authorization, idp,
                            <<"Missing or invalid authorization header">>,
                            <<"Invalid authentication token">>)} :
  \E body \in (IF reads_body(auth) THEN BodySet ELSE {NoBody}) :
  \E p \in {IF reads_body(auth) THEN prepare(body, auth.user_id, nextId)
            ELSE NotPrepared} :
  \E upload \in (IF calls_upload(auth, p) THEN UploadAnswers ELSE {NotCalled}) :
  \E pdf_url \in {get_public_url(BUCKET, p.filename)} :
  \E record \in {IF builds_record(auth, p, upload)
                 THEN certificate_data(body.data.f, p.certificate_id, auth.user_id,
                        dict_get(auth.user_info, "email", JStr(UnknownEmail)),
                        p.device_model, pdf_url)
                 ELSE Raise(<<>>)} :
  \E insert \in (IF calls_insert(auth, p, upload, record) THEN InsertAnswers
                 ELSE {NotCalled}) :
    /\ nextId + p.ids <= MaxCerts + 1
    /\ nextId' = nextId + p.ids
    /\ storage' = IF Performed(upload)
                  THEN storage \cup {[name |-> p.filename, pdf |-> p.pdf]}
                  ELSE storage
    /\ table' = IF Performed(insert) THEN Append(table, record.v) ELSE table
    /\ req' = [NoRequest EXCEPT !.endpoint = "generate-certificate",
                                !.authorization = authorization, !.idp = idp,
                                !.body = body, !.upload = upload, !.insert = insert]
    /\ resp' = generate_certificate(auth, p, upload, pdf_url, record, insert)

GenerateCertificate == GenerateCertificateFrom(Headers, Bodies)

GetMyCertificates ==
  \E authorization \in Headers :
  \E idp \in IdentityFor(authorization) :
  \E auth \in {authenticate(authorization, idp, <<"Missing authorization header">>,
                            <<"Invalid token">>)} :
  \E paging \in (IF calls_select(auth) THEN Pagings ELSE {<<10, 0>>}) :
  \E select \in (IF calls_select(auth) THEN SelectAnswers ELSE {NotCalled}) :
  \E rows \in {select_records(table, [user_id |-> auth.user_id],
                              paging[1], paging[2])} :
    /\ req' = [NoRequest EXCEPT !.endpoint = "my-certificates",
                                !.authorization = authorization, !.idp = idp,
                                !.select = select,
                                !.limit = paging[1], !.offset = paging[2]]
    /\ resp' = get_my_certificates(auth, select, rows)
    /\ UNCHANGED <<table, storage, nextId>>

GetCertificatesByDevice ==
  \E authorization \in Headers :
  \E idp \in IdentityFor(authorization) :
  \E auth \in {authenticate(authorization, idp, <<"Missing authorization header">>,
                            <<"Invalid token">>)} :
  \E model \in (IF calls_select(auth) THEN DeviceModels ELSE {MyDisk}) :
  \E select \in (IF calls_select(auth) THEN SelectAnswers ELSE {NotCalled}) :
  \E rows \in {select_records(table, [user_id |-> auth.user_id, model |-> JStr(model)],
                              0, 0)} :
    /\ req' = [NoRequest EXCEPT !.endpoint = "certificates-by-device",
                                !.authorization = authorization, !.idp = idp,
                                !.select = select, !.model = model]
    /\ resp' = get_certificates_by_device(model, auth, select, rows)
    /\ UNCHANGED <<table, storage, nextId>>

GetUserInfo ==
  \E authorization \in Headers :
  \E idp \in IdentityFor(authorization) :
  \E auth \in {authenticate(authorization, idp, <<"Missing authorization header">>,
                            <<"Invalid token">>)} :
    /\ req' = [NoRequest EXCEPT !.endpoint = "user-info",
                                !.authorization = authorization, !.idp = idp]
    /\ resp' = get_user_info(auth)
    /\ UNCHANGED <<table, storage, nextId>>

Init ==
  /\ table = <<>>
  /\ storage = {}
  /\ nextId = 1
  /\ req = NoRequest
  /\ resp = NoResponse

Next ==
  \/ GenerateCertificate
  \/ GetMyCertificates
  \/ GetCertificatesByDevice
  \/ GetUserInfo

Spec == Init /\ [][Next]_vars

-----------------------------------------------------------------------------
(* Field resolution on its own: one POST /generate-certificate by user A    *)
(* against the empty system, its body drawn from bodies that give one       *)
(* certificate field every combination of a top-level and a nested value.   *)

Absent == [t |-> "absent"]

TopValues == {Absent, JNull, JStr(<<>>), JNum(0), JBool(FALSE), JStr(MyDisk), JNum(5)}
NestedValues == {Absent, JNull, JStr(<<>>), JNum(0), JBool(FALSE), JStr(SSD500), JNum(7)}

(* The resolved fields of the record; each is also its top-level key. *)
Fields == {"model", "manufacturer", "serial_number", "media_type",
           "sanitization_method", "sanitization_technique", "tool_used",
           "verification_method"}

DefaultedFields == {"model", "manufacturer", "serial_number"}

Section(field) ==
  IF field \in {"model", "manufacturer", "serial_number", "media_type"}
  THEN "media_information" ELSE "tool_information"

NestedKey(field) ==
  CASE field = "sanitization_method" -> "method"
    [] field = "sanitization_technique" -> "technique"
    [] field = "tool_used" -> "name"
    [] OTHER -> field

Placeholder(field) == IF field = "model" THEN UnknownDevice ELSE Unknown

(* d with d[key] set to value, or with key removed when value is Absent. *)
With(d, key, value) ==
  IF value = Absent THEN [k \in DOMAIN d \ {key} |-> d[k]]
  ELSE [k \in DOMAIN d \cup {key} |-> IF k = key THEN value ELSE d[k]]

(* {"media_information": {"model": "SSD-500"}, "manufacturer": "Acme"} *)
ExampleData ==
  [manufacturer |-> JStr(Acme), media_information |-> JObj([model |-> JStr(SSD500)])]

(* base with the field's top-level key and nested key set; with no nested   *)
(* value the section is an object without the key, absent, or null.         *)
FieldData(base, field, top, nested, section) ==
  LET sec == dict_get(base, Section(field), JObj(EmptyDict)).f
      d == With(base, field, top)
  IN  CASE section = "object" -> With(d, Section(field),
                                      JObj(With(sec, NestedKey(field), nested)))
        [] section = "absent" -> With(d, Section(field), Absent)
        [] section = "null"   -> With(d, Section(field), JNull)

FieldBodies ==
  {Body(JObj(FieldData(base, field, top, nested, "object"))) :
     base \in {EmptyDict, ExampleData}, field \in Fields,
     top \in TopValues, nested \in NestedValues}
  \cup
  {Body(JObj(FieldData(base, field, top, Absent, section))) :
     base \in {EmptyDict, ExampleData}, field \in Fields,
     top \in TopValues, section \in {"absent", "null"}}

ResolveFields ==
  /\ resp = NoResponse
  /\ GenerateCertificateFrom({BearerA}, FieldBodies)

SpecFields == Init /\ [][ResolveFields]_vars

-----------------------------------------------------------------------------
(* Properties.  They are stated on the last request, the answers it got and *)
(* the response to it, and on the table and the bucket.                     *)

Protected == {"generate-certificate", "my-certificates", "certificates-by-device",
              "user-info"}

IsGenerate == req.endpoint = "generate-certificate"

Is2xx(status) == status >= 200 /\ status <= 299

(* The values Python treats as false. *)
FalsyValues == {JNull, JStr(<<>>), JNum(0), JBool(FALSE), JObj(EmptyDict), JArr(<<>>)}

(* The Authorization header is absent or does not start with "Bearer ". *)
HeaderMissing ==
  \/ ~req.authorization.present
  \/ req.authorization.value = <<>>
  \/ req.authorization.value[1] # "Bearer "

(* The identity provider turned the token down: a status other than 200, or *)
(* 200 with an empty body.                                                  *)
TokenRejected ==
  /\ req.idp.called /\ ~req.idp.raises
  /\ req.idp.status # 200 \/ req.idp.json \in FalsyValues

(* The call of the identity provider failed. *)
IdentityCallFailed == req.idp.called /\ req.idp.raises

(* The identity provider answered 200 with a body that has no id. *)
IdentityWithoutId ==
  /\ req.idp.called /\ ~req.idp.raises /\ req.idp.status = 200
  /\ req.idp.json \notin FalsyValues
  /\ "id" \notin DOMAIN req.idp.json.f

(* The id of the user the identity provider named (when it named one). *)
CallerId == req.idp.json.f.id.s

Authenticated ==
  ~HeaderMissing /\ ~TokenRejected /\ ~IdentityCallFailed /\ ~IdentityWithoutId

(* The record the last request stored. *)
Stored == IsGenerate /\ req.insert.called /\ ~req.insert.raises
          /\ Is2xx(req.insert.status)
LastRecord == table[Len(table)]
Data == req.body.data.f

TopPresent(field) == field \in DOMAIN Data
NestedPresent(field) ==
  /\ Section(field) \in DOMAIN Data
  /\ Data[Section(field)].t = "obj"
  /\ NestedKey(field) \in DOMAIN Data[Section(field)].f
NestedValue(field) == Data[Section(field)].f[NestedKey(field)]

(* C1, as claimed: on every protected endpoint a request without a valid    *)
(* bearer token -- no header, no "Bearer " prefix, a token the identity     *)
(* provider turns down, a failed identity call, an identity without id --   *)
(* is answered 401.                                                         *)
C1_Unauthenticated401 ==
  (req.endpoint \in Protected /\ ~Authenticated) => resp.status = 401

(* C1, amended: a missing or non-Bearer header and a token the identity     *)
(* provider turns down (status other than 200, or an empty body) are        *)
(* answered 401 on every protected endpoint; a failed identity call and an  *)
(* identity without id are answered 401 on /user-info and 500 on the other  *)
(* three endpoints.                                                         *)
C1_Rejected401 ==
  req.endpoint \in Protected =>
    /\ (HeaderMissing \/ TokenRejected) => resp.status = 401
    /\ (~HeaderMissing /\ (IdentityCallFailed \/ IdentityWithoutId)) =>
         resp.status = IF req.endpoint = "user-info" THEN 401 ELSE 500

C1_Witness ==
  /\ IsGenerate
  /\ ~HeaderMissing /\ req.idp.status = 401
  /\ resp.status = 401
  /\ table # <<>>

(* C2: a failed upload (a status other than 200 and 201) is answered 500    *)
(* and the database is not asked to insert; and every record of the table   *)
(* has the public URL of a file the bucket holds.                           *)
C2_NoRecordWithoutFile ==
  /\ (IsGenerate /\ req.upload.called /\ ~req.upload.raises
        /\ req.upload.status \notin {200, 201}) =>
       (resp.status = 500 /\ ~req.insert.called)
  /\ \A i \in 1..Len(table) :
       \E file \in storage :
         table[i].pdf_url =
           SUPABASE_URL \o <<"/storage/v1/object/public/">> \o BUCKET \o <<"/">>
             \o file.name

C2_Witness ==
  /\ IsGenerate
  /\ req.upload.status = 403
  /\ resp.status = 500
  /\ ~req.insert.called
  /\ Len(table) = 1
  /\ Cardinality(storage) = 1

(* C3, as claimed: when a field's top-level key and its nested key are both *)
(* present, the stored record holds the top-level value, whatever it is.    *)
C3_TopLevelWins ==
  Stored =>
    \A field \in Fields :
      (TopPresent(field) /\ NestedPresent(field)) => LastRecord[field] = Data[field]

(* C3, amended: with both keys present the record holds the top-level value *)
(* when that value is truthy; a falsy top-level value (null, "", 0, false)  *)
(* counts as absent, and the record holds what the nested value alone       *)
(* gives: the nested value, or the placeholder when model, manufacturer or  *)
(* serial_number has a falsy nested value.                                  *)
C3_TruthyTopLevelWins ==
  Stored =>
    \A field \in Fields :
      (TopPresent(field) /\ NestedPresent(field)) =>
        LastRecord[field] =
          IF Data[field] \notin FalsyValues THEN Data[field]
          ELSE IF field \in DefaultedFields /\ NestedValue(field) \in FalsyValues
          THEN JStr(Placeholder(field))
          ELSE NestedValue(field)

C3_Witness ==
  /\ Stored
  /\ \E field \in Fields \ DefaultedFields :
       /\ TopPresent(field) /\ NestedPresent(field)
       /\ Data[field] = JNum(5)
       /\ NestedValue(field) = JStr(SSD500)
       /\ LastRecord[field] = JNum(5)

(* C4, as claimed: when neither the top-level key nor the nested key of a   *)
(* field is present, the stored record holds a placeholder, never null.     *)
C4_PlaceholderNeverNull ==
  Stored =>
    \A field \in Fields :
      (~TopPresent(field) /\ ~NestedPresent(field)) => LastRecord[field] # JNull

(* C4, amended: with neither key present the record holds "Unknown_Device"  *)
(* for model and "Unknown" for manufacturer and serial_number; the other    *)
(* five fields hold null.                                                   *)
C4_PlaceholderOrNull ==
  Stored =>
    \A field \in Fields :
      (~TopPresent(field) /\ ~NestedPresent(field)) =>
        LastRecord[field] =
          CASE field = "model" -> JStr(<<"Unknown_Device">>)
            [] field \in {"manufacturer", "serial_number"} -> JStr(<<"Unknown">>)
            [] OTHER -> JNull

C4_Witness ==
  /\ Stored
  /\ Data = EmptyDict
  /\ LastRecord.model = JStr(<<"Unknown_Device">>)
  /\ LastRecord.serial_number = JStr(<<"Unknown">>)
  /\ LastRecord.media_type = JNull

(* C5, as claimed: with a valid token and a successful upload and insert, a *)
(* field whose top-level key is absent and whose nested key is present      *)
(* takes the nested value in the stored record.                             *)
C5_NestedValueTaken ==
  (Stored /\ resp.status = 200) =>
    \A field \in Fields :
      (~TopPresent(field) /\ NestedPresent(field)) =>
        LastRecord[field] = NestedValue(field)

(* C5, amended: such a field takes the nested value, each field on its own, *)
(* except that model, manufacturer and serial_number take their placeholder *)
(* when the nested value is falsy (null, "", 0, false).                     *)
C5_NestedValueOrPlaceholder ==
  (Stored /\ resp.status = 200) =>
    \A field \in Fields :
      (~TopPresent(field) /\ NestedPresent(field)) =>
        LastRecord[field] =
          IF field \in DefaultedFields /\ NestedValue(field) \in FalsyValues
          THEN JStr(Placeholder(field))
          ELSE NestedValue(field)

(* {"media_information": {"model": "SSD-500"}, "manufacturer": "Acme"} *)
C5_Witness ==
  /\ Stored /\ resp.status = 200
  /\ Data = ExampleData
  /\ LastRecord.model = JStr(SSD500)
  /\ LastRecord.manufacturer = JStr(Acme)

(* C6: no two records of the table share a certificate_id, every record   *)
(* has a stored file of its own, and the certificate_id a successful call   *)
(* returns is the one of the record it added and of no earlier record.      *)
C6_CertificateIdsDistinct ==
  /\ \A i, j \in 1..Len(table) :
       i # j => table[i].certificate_id # table[j].certificate_id
  /\ Cardinality({table[i].pdf_url : i \in 1..Len(table)}) = Len(table)
  /\ Cardinality(storage) >= Len(table)
  /\ (IsGenerate /\ resp.status = 200) =>
       /\ table # <<>>
       /\ resp.certificate_id = LastRecord.certificate_id
       /\ \A i \in 1..(Len(table) - 1) :
            table[i].certificate_id # resp.certificate_id

(* The same request by the same user, twice: two records that differ in     *)
(* certificate_id and pdf_url only, and two files.                          *)
C6_Witness ==
  /\ Len(table) = 2
  /\ IsGenerate /\ resp.status = 200
  /\ table[1].certificate_id # table[2].certificate_id
  /\ [table[1] EXCEPT !.certificate_id = <<>>, !.pdf_url = <<>>]
       = [table[2] EXCEPT !.certificate_id = <<>>, !.pdf_url = <<>>]
  /\ Cardinality(storage) = 2

(* The device model with every space and every "/" replaced by "_". *)
Underscored(model) ==
  [i \in 1..Len(model) |-> IF model[i] \in {" ", "/"} THEN "_" ELSE model[i]]

ExpectedFileName(user_id, model, certificate_id) ==
  <<"cert_">> \o user_id \o <<"_">> \o Underscored(model) \o <<"_">>
    \o certificate_id \o <<".pdf">>

ExpectedUrl(bucket, user_id, model, certificate_id) ==
  SUPABASE_URL \o <<"/storage/v1/object/public/">> \o bucket \o <<"/">>
    \o ExpectedFileName(user_id, model, certificate_id)

(* C7: the pdf_url of every record is the public URL built from the bucket  *)
(* name, the user id, the sanitized device model and the certificate id,    *)
(* and from nothing else; the bucket holds the file of that name; and a     *)
(* successful call returns the pdf_url it stored.                           *)
C7_UrlFromFourValues ==
  /\ \A i \in 1..Len(table) :
       /\ table[i].pdf_url =
            ExpectedUrl(<<"certificates">>, table[i].user_id, table[i].model.s,
                        table[i].certificate_id)
       /\ \E file \in storage :
            file.name = ExpectedFileName(table[i].user_id, table[i].model.s,
                                         table[i].certificate_id)
  /\ (IsGenerate /\ resp.status = 200) =>
       /\ resp.pdf_url = LastRecord.pdf_url
       /\ resp.pdf_url =
            ExpectedUrl(<<"certificates">>, resp.user_id, resp.device_model,
                        resp.certificate_id)

C7_Witness ==
  /\ IsGenerate /\ resp.status = 200
  /\ resp.device_model = <<"M", "y", " ", "D", "/", "2">>
  /\ resp.pdf_url =
       <<"https://project.supabase.co", "/storage/v1/object/public/", "certificates",
         "/", "cert_", "userB", "_", "M", "y", "_", "D", "_", "2", "_", "uuid-", "2",
         ".pdf">>
  /\ LastRecord.pdf_url = resp.pdf_url

(* What the three downstream calls of the last request were answered. *)
UploadAnswered == req.upload.called /\ ~req.upload.raises
InsertAnswered == req.insert.called /\ ~req.insert.raises
SelectAnswered == req.select.called /\ ~req.select.raises

(* The response is the 500 the handler makes of a failed downstream call. *)
UploadTurned500 ==
  resp.status = 500 /\ resp.detail # <<>> /\ resp.detail[1] = "Upload failed: "
InsertTurned500 ==
  resp.status = 500 /\ resp.detail # <<>> /\ resp.detail[1] = "Database save failed: "
SelectTurned500 == resp.status = 500 /\ resp.detail = <<"Database error">>

(* The detail of the response ends with the text of the downstream answer. *)
DetailCarries(text) ==
  /\ Len(resp.detail) >= Len(text) + 1
  /\ SubSeq(resp.detail, Len(resp.detail) - Len(text) + 1, Len(resp.detail)) = text

(* C8, as claimed: a downstream answer is turned into a 500 exactly when    *)
(* its status is not 2xx, and the 500's detail holds the answer's text.     *)
C8_Non2xxIs500WithText ==
  /\ UploadAnswered =>
       /\ UploadTurned500 <=> ~Is2xx(req.upload.status)
       /\ UploadTurned500 => DetailCarries(req.upload.text)
  /\ InsertAnswered =>
       /\ InsertTurned500 <=> ~Is2xx(req.insert.status)
       /\ InsertTurned500 => DetailCarries(req.insert.text)
  /\ SelectAnswered =>
       /\ resp.status = 500 <=> ~Is2xx(req.select.status)
       /\ resp.status = 500 => DetailCarries(req.select.text)

(* C8, amended: an upload or insert answer is turned into a 500 exactly     *)
(* when its status is neither 200 nor 201, and the detail is "Upload        *)
(* failed: " or "Database save failed: " followed by the answer's text; a   *)
(* select answer is turned into a 500 exactly when its status is not 200,   *)
(* and the detail is the fixed text "Database error".                       *)
C8_Not200Or201Is500 ==
  /\ UploadAnswered =>
       /\ UploadTurned500 <=> req.upload.status \notin {200, 201}
       /\ UploadTurned500 => resp.detail = <<"Upload failed: ">> \o req.upload.text
  /\ InsertAnswered =>
       /\ InsertTurned500 <=> req.insert.status \notin {200, 201}
       /\ InsertTurned500 =>
            resp.detail = <<"Database save failed: ">> \o req.insert.text
  /\ SelectAnswered =>
       /\ resp.status = 500 <=> req.select.status # 200
       /\ resp.status = 500 => resp.detail = <<"Database error">>

C8_Witness ==
  /\ IsGenerate
  /\ req.upload.status = 200
  /\ req.insert.status = 409
  /\ resp.status = 500
  /\ resp.detail = <<"Database save failed: ", "duplicate key">>

(* No row of the table is of the caller and of the requested device model. *)
NoMatchingRow ==
  \A i \in 1..Len(table) :
    ~(table[i].user_id = CallerId /\ table[i].model = JStr(req.model))

(* The last request raised an exception that is no HTTPException: in the    *)
(* identity call, in reading the body, in building the PDF, the file name   *)
(* or the record, or in a downstream call.                                  *)
IdentityException == ~HeaderMissing /\ (IdentityCallFailed \/ IdentityWithoutId)
BodyException ==
  req.body.read /\ (~req.body.valid \/ req.body.data.t # "obj")
BodyIsObject ==
  req.body.read /\ req.body.valid /\ req.body.data.t = "obj"
NullEvent ==
  /\ BodyIsObject
  /\ "sanitization_event" \in DOMAIN Data
  /\ Data.sanitization_event = JNull
NonStringModel ==
  /\ BodyIsObject
  /\ \A section \in {"sanitization_event", "sanitization_details",
                      "host_system_information"} :
        section \in DOMAIN Data => Data[section].t = "obj"
  /\ "model" \in DOMAIN Data
  /\ Data.model.t = "num" /\ Data.model.n # 0

(* C9, as claimed: the only error statuses are 401 and 500, on every        *)
(* endpoint; an exception that is no HTTPException is answered 500 with     *)
(* its message.                                                             *)
C9_ThreeBuckets ==
  /\ resp.status \in {0, 200, 401, 500}
  /\ (req.endpoint \in Protected /\ (IdentityException \/ BodyException)) =>
       resp.status = 500

(* C9, amended: the error statuses are 401, 404 and 500.  404 is the        *)
(* answer of GET /certificates-by-device/{model} when the query succeeds    *)
(* and returns no row, and of nothing else.  An exception that is no        *)
(* HTTPException is answered with its message, under status 500 on POST     *)
(* /generate-certificate, GET /my-certificates and GET                      *)
(* /certificates-by-device/{model} and under status 401 on GET /user-info;  *)
(* such are a failed identity call, an identity without id, a body that is  *)
(* no JSON or no object, a null sanitization_event, a model that is a       *)
(* number.                                                                  *)
C9_FourStatuses ==
  /\ resp.status \in {0, 200, 401, 404, 500}
  /\ resp.status = 404 <=>
       /\ req.endpoint = "certificates-by-device"
       /\ SelectAnswered /\ req.select.status = 200
       /\ NoMatchingRow
  /\ (req.endpoint \in Protected /\ IdentityException) =>
       /\ resp.status = IF req.endpoint = "user-info" THEN 401 ELSE 500
       /\ resp.detail = IF IdentityCallFailed THEN req.idp.text ELSE <<"'id'">>
  /\ BodyException =>
       /\ resp.status = 500
       /\ resp.detail \in {<<"Expecting value">>,
                           <<"'", "list", "' object has no attribute '", "keys", "'">>}
  /\ NullEvent =>
       /\ resp.status = 500
       /\ resp.detail = <<"'", "NoneType", "' object has no attribute '", "get", "'">>
  /\ NonStringModel =>
       /\ resp.status = 500
       /\ resp.detail = <<"'", "int", "' object has no attribute '", "replace", "'">>
  /\ resp.status = 401 =>
       \/ HeaderMissing
       \/ TokenRejected
       \/ req.endpoint = "user-info" /\ IdentityException

C9_Witness ==
  /\ req.endpoint = "certificates-by-device"
  /\ resp.status = 404
  /\ resp.detail = <<"No certificates found">>
  /\ table # <<>>

(* C10: a successful GET /my-certificates or GET /certificates-by-device    *)
(* returns rows of the table that belong to the caller and, on the device   *)
(* endpoint, are of the requested model; never a row of another user.       *)
C10_OnlyCallersRecords ==
  (req.endpoint \in {"my-certificates", "certificates-by-device"}
     /\ resp.status = 200) =>
    \A k \in 1..Len(resp.certificates) :
      /\ \E i \in 1..Len(table) : table[i] = resp.certificates[k]
      /\ resp.certificates[k].user_id = CallerId
      /\ req.endpoint = "certificates-by-device" =>
           resp.certificates[k].model = JStr(req.model)

(* The table holds a record of each user and the caller is given their own. *)
C10_Witness ==
  /\ req.endpoint = "my-certificates" /\ resp.status = 200
  /\ Len(table) = 2
  /\ table[1].user_id # table[2].user_id
  /\ Len(resp.certificates) = 1
  /\ resp.certificates[1].user_id = CallerId

(* C11: records and files are write-once.  Every step keeps every record   *)
(* of the table and every file of the bucket as it is, and adds at most one *)
(* record and at most one file; a step of a GET endpoint, and a step whose  *)
(* request fails authentication, changes neither the table nor the bucket.  *)
C11_WriteOnce ==
  [][/\ Len(table') \in {Len(table), Len(table) + 1}
     /\ SubSeq(table', 1, Len(table)) = table
     /\ storage \subseteq storage'
     /\ Cardinality(storage') <= Cardinality(storage) + 1
     /\ (req.endpoint # "generate-certificate")' => UNCHANGED <<table, storage>>
     /\ (~Authenticated)' => UNCHANGED <<table, storage>>
     /\ table' # table => storage' # storage]_vars

(* A GET, and a rejected POST, served while the table holds two records and *)
(* the bucket two files.                                                    *)
C11_Witness ==
  /\ Len(table) = 2 /\ Cardinality(storage) = 2
  /\ \/ req.endpoint = "certificates-by-device" /\ resp.status = 200
     \/ IsGenerate /\ ~Authenticated /\ resp.status = 401

(* The certificate id the last request drew, and the files and records     *)
(* that carry it.                                                           *)
DrawnId == <<"uuid-">> \o NatStr(nextId - 1)

NamedAfter(name, certificate_id) ==
  /\ Len(name) > Len(certificate_id)
  /\ SubSeq(name, Len(name) - Len(certificate_id), Len(name) - 1) = certificate_id
  /\ name[Len(name)] = ".pdf"

InsertFailed ==
  /\ IsGenerate
  /\ req.upload.called /\ ~req.upload.raises /\ req.upload.status \in {200, 201}
  /\ req.insert.called
  /\ req.insert.raises \/ ~Is2xx(req.insert.status)

(* C12: when the upload succeeded and the insert then failed (an exception  *)
(* or a status that is not 2xx), the response is 500, the uploaded file is  *)
(* in the bucket, and no record of the table carries its certificate id or  *)
(* refers to it.                                                            *)
C12_OrphanFile ==
  InsertFailed =>
    /\ resp.status = 500
    /\ \E file \in storage : NamedAfter(file.name, DrawnId)
    /\ \A i \in 1..Len(table) :
         /\ table[i].certificate_id # DrawnId
         /\ ~NamedAfter(table[i].pdf_url, DrawnId)
    /\ Cardinality(storage) > Len(table)

(* The second request's upload is answered 200 and its insert raises: two   *)
(* files, one record.                                                       *)
C12_Witness ==
  /\ InsertFailed /\ req.insert.raises
  /\ resp.status = 500
  /\ resp.detail = req.insert.text
  /\ Cardinality(storage) = 2
  /\ Len(table) = 1

(* The cell of the PDF that shows a resolved field of the record. *)
Cell(pdf, field) ==
  CASE field = "sanitization_method" -> pdf.method
    [] field = "sanitization_technique" -> pdf.technique
    [] field = "tool_used" -> pdf.tool_name
    [] OTHER -> pdf[field]

(* A cell corresponds to a stored value: it prints the value, and a         *)
(* placeholder where the record holds null or a placeholder.                *)
Corresponds(cell, value) ==
  IF value \in {JNull, JStr(<<"Unknown">>), JStr(<<"Unknown_Device">>)}
  THEN cell = <<"N/A">>
  ELSE cell = PyStr(value)

(* The section of the last request's body has no such list. *)
ListAbsent(section, key) ==
  \/ section \notin DOMAIN Data
  \/ Data[section].t = "obj" /\ key \notin DOMAIN Data[section].f

(* C13: the PDF of every record prints, for each of the eight resolved      *)
(* fields, the value the record holds (a placeholder for a placeholder),    *)
(* and the PDF of a request without passes_performed or tools_used prints   *)
(* the placeholder in that cell.                                            *)
C13_PdfShowsRecord ==
  /\ \A i \in 1..Len(table) : \A file \in storage :
       NamedAfter(file.name, table[i].certificate_id) =>
         \A field \in {"model", "manufacturer", "serial_number", "media_type",
                       "sanitization_method", "sanitization_technique",
                       "tool_used", "verification_method"} :
           Corresponds(Cell(file.pdf, field), table[i][field])
  /\ (IsGenerate /\ Performed(req.upload)) =>
       \A file \in storage :
         NamedAfter(file.name, DrawnId) =>
           /\ ListAbsent("sanitization_details", "passes_performed") =>
                file.pdf.passes_performed = <<"N/A">>
           /\ ListAbsent("host_system_information", "tools_used") =>
                file.pdf.tools_used = <<"N/A">>

(* The certificate id the last request's body supplies, null when it        *)
(* supplies none.                                                           *)
ClientId ==
  IF /\ "certificate_metadata" \in DOMAIN Data
     /\ Data.certificate_metadata.t = "obj"
     /\ "certificate_id" \in DOMAIN Data.certificate_metadata.f
  THEN Data.certificate_metadata.f.certificate_id
  ELSE JNull

(* The file the last request uploaded. *)
UploadedFiles == {file \in storage : NamedAfter(file.name, DrawnId)}

(* The generated id is the one of the record, the response and the file. *)
IdStoredNamedReturned ==
  /\ LastRecord.certificate_id = DrawnId
  /\ resp.certificate_id = DrawnId
  /\ NamedAfter(resp.pdf_url, DrawnId)
  /\ UploadedFiles # {}

(* C14, as claimed: after a successful POST /generate-certificate the       *)
(* Certificate ID printed in the PDF is the generated id of the record, the *)
(* file name and the response, whatever the body holds.                     *)
C14_PdfPrintsGeneratedId ==
  (IsGenerate /\ resp.status = 200) =>
    /\ IdStoredNamedReturned
    /\ \A file \in UploadedFiles : file.pdf.certificate_id = DrawnId

(* C14, amended: the record, the file name and the response carry the       *)
(* generated id; the PDF prints the generated id unless the body's          *)
(* certificate_metadata object has a truthy certificate_id, and then it     *)
(* prints that client-supplied value (as text).                             *)
C14_PdfPrintsClientIdIfGiven ==
  (IsGenerate /\ resp.status = 200) =>
    /\ IdStoredNamedReturned
    /\ \A file \in UploadedFiles :
         file.pdf.certificate_id =
           IF ClientId \in FalsyValues THEN DrawnId ELSE PyStr(ClientId)

(* A body with certificate_metadata.certificate_id "X1": the PDF prints X1, *)
(* the record and the response hold the generated id.                       *)
C14_Witness ==
  /\ IsGenerate /\ resp.status = 200
  /\ ClientId = JStr(<<"X", "1">>)
  /\ \E file \in UploadedFiles : file.pdf.certificate_id = <<"X", "1">>
  /\ LastRecord.certificate_id = <<"uuid-", "1">>
  /\ resp.certificate_id = <<"uuid-", "1">>

====
